---------------------------- MODULE Spec2Model ----------------------------
(***************************************************************************)
(* A model of fulldisk.py: the platform allocators (fastwrite_on_linux,    *)
(* fastwrite_on_windows, extend_file_size_linux, adjust_file_size_windows),*)
(* the distribution loop run(), the target enumeration walk_path(), the    *)
(* visibility step hide_file() and the size clamp of the __main__ block.   *)
(*                                                                         *)
(* Three specifications share the variables:                               *)
(*   Spec      - one execution of run(path, type, size, write_func, hide)  *)
(*   AllocSpec - one call of one of the four allocators on one file        *)
(*   MainSpec  - the size computation of the __main__ block                *)
(***************************************************************************)
EXTENDS Integers, Sequences, FiniteSets

\* ------------------------------------------------------------------ bounds

MaxEntries == 3     \* entries of the walked tree (directories and files)
MaxBudget == 7      \* largest small size handed to run()
MinBudgetAbs == 1   \* run() is also entered with sizes -MinBudgetAbs..-1
MaxCur == 1         \* largest current size of an existing file
MaxAdd == 3         \* largest byte count handed to an allocator on its own
MaxNum == 3         \* largest number written in a --size string
MaxFreeOff == 2     \* free space is sampled as k, MiB - k and MiB + k, k <= MaxFreeOff

\* ------------------------------------------------ the operating system

Max(a, b) == IF a >= b THEN a ELSE b

\* What the environment of one allocator call decides.
\*   has_fallocate: os.posix_fallocate exists on this platform
\*   fs_ok:         the OS / filesystem carries out the fallocate request
\*   privileged:    SetFileValidData succeeds (needs SeManageVolumePrivilege)
\*   io_ok:         open() and the size query succeed (no ENOSPC, EACCES, ENOENT)
Envs == [has_fallocate : BOOLEAN, fs_ok : BOOLEAN, privileged : BOOLEAN, io_ok : BOOLEAN]

\* The outcome of a primitive or of an allocator: the exception that leaves it
\* ("none" when it returns) and the apparent size of the file afterwards.
Returned(sz) == [exc |-> "none", fsize |-> sz]
Raised(e, sz) == [exc |-> e, fsize |-> sz]

\* os.posix_fallocate(fd, 0, len) on a file of size cur: AttributeError where the
\* function does not exist, EINVAL for len <= 0, an OSError where the filesystem
\* refuses; otherwise the file is at least len bytes long.
posix_fallocate(env, cur, len) ==
    IF ~env.has_fallocate THEN Raised("AttributeError", cur)
    ELSE IF len <= 0 THEN Raised("OSError", cur)
    ELSE IF ~env.fs_ok THEN Raised("OSError", cur)
    ELSE Returned(Max(cur, len))

\* f.seek(pos); f.write(b'\0'); f.flush() on a file of size cur: a negative
\* position raises, otherwise the byte at pos is written.
seek_write(cur, pos) ==
    IF pos < 0 THEN Raised("OSError", cur) ELSE Returned(Max(cur, pos + 1))

\* SetFilePointerEx(handle, pos, FILE_BEGIN); SetEndOfFile(handle): a negative
\* position fails, otherwise the file is exactly pos bytes long.
set_end_of_file(cur, pos) ==
    IF pos < 0 THEN Raised("OSError", cur) ELSE Returned(pos)

\* ------------------------------------------------------- the allocators

extend_file_size_linux(env, cur, add_size) ==
    LET new_size == cur + add_size
        r == posix_fallocate(env, cur, new_size)
    IN  IF ~env.io_ok THEN Raised("OSError", cur)
        ELSE IF r.exc = "AttributeError" THEN seek_write(cur, new_size - 1)
        ELSE r

adjust_file_size_windows(env, cur, add_size) ==
    LET new_size == cur + add_size
        r == set_end_of_file(cur, new_size)
    IN  IF ~env.io_ok THEN Raised("OSError", cur)
        ELSE r   \* the result of SetFileValidData is assigned and never read

fastwrite_on_windows(env, size) ==
    LET w == seek_write(0, size - 1)     \* open(.., 'wb') leaves an empty file
    IN  IF ~env.io_ok THEN Raised("OSError", 0)
        ELSE IF w.exc # "none" THEN w
        ELSE IF env.privileged THEN w
        ELSE Returned(size)              \* f.truncate(size)

fastwrite_on_linux(env, size) ==
    IF ~env.io_ok THEN Raised("OSError", 0)
    ELSE posix_fallocate(env, 0, size)   \* open(.., 'wb') leaves an empty file

\* w_funcs[os_type][is_append], applied to a file of current size cur.
w_funcs(os, is_append, env, cur, sz) ==
    IF os = "Windows"
    THEN IF is_append THEN adjust_file_size_windows(env, cur, sz)
         ELSE fastwrite_on_windows(env, sz)
    ELSE IF is_append THEN extend_file_size_linux(env, cur, sz)
         ELSE fastwrite_on_linux(env, sz)

\* ----------------------------------------------------- the visibility step

Lower(s) ==
    CASE s = "Linux" -> "linux"
      [] s = "Windows" -> "windows"
      [] OTHER -> s

\* _hide_file_windows / _hide_file_linux catch every exception and return False.
hide_file_windows(attr_ok) == IF attr_ok THEN "True" ELSE "False"
hide_file_linux(rename_ok) == IF rename_ok THEN "True" ELSE "False"

\* hide_file(os_type, filepath): exists is os.path.exists(filepath), step_ok is
\* whether the platform's attribute / rename operation works.
hide_file(os, exists, step_ok) ==
    IF ~exists THEN "FileNotFoundError"
    ELSE IF Lower(os) = "windows" THEN hide_file_windows(step_ok)
    ELSE IF Lower(os) = "linux" THEN hide_file_linux(step_ok)
    ELSE "ValueError"

\* ------------------------------------------------------------ enumeration

Kinds == {"dir", "file"}
Entries == [kind : Kinds, writable : BOOLEAN]
Trees == UNION {[1..n -> Entries] : n \in 0..MaxEntries}

RECURSIVE SelectIdx(_, _, _)
\* The indices k..Len(t) of t whose entry satisfies the filter, in order.
SelectIdx(t, k, is_append) ==
    IF k > Len(t) THEN <<>>
    ELSE LET want == IF is_append THEN "file" ELSE "dir"
             rest == SelectIdx(t, k + 1, is_append)
         IN  IF t[k].kind = want /\ t[k].writable THEN <<k>> \o rest ELSE rest

\* walk_path(path, is_append): the writable files (append) or the writable
\* directories (otherwise) of the tree, in os.walk order.
walk_path(t, is_append) == SelectIdx(t, 1, is_append)

\* ------------------------------------------------------------------ state

VARIABLES
    pc,           \* where the modelled code stands
    os_type,      \* platform.system(): "Linux" or "Windows"
    type,         \* run's type argument (args.mode)
    is_hide,      \* run's is_hide argument
    tree,         \* what os.walk(path) finds: entries with kind and writability
    walk,         \* run's walk: the targets, as indices into tree
    walk_len,     \* run's walk_len
    size,         \* run's size (the budget); in MainSpec the size __main__ computes
    step_size,    \* run's step_size
    i,            \* position of the for loop in walk (1-based)
    totalBudget,  \* history: the size run was entered with
    calls,        \* history: the write_func calls made, [target, size, ok]
    outcomes,     \* history: how each finished loop iteration ended
    func,         \* AllocSpec: the allocator called ("none" before the call)
    env,          \* AllocSpec: the environment of the call
    cur,          \* AllocSpec: size of the file before the call
    add_size,     \* AllocSpec: the byte count argument
    res,          \* AllocSpec: the outcome of the call
    free,         \* MainSpec: use_disk.free
    size_str      \* MainSpec: args.size, "full" or [num, unit]

vars == <<pc, os_type, type, is_hide, tree, walk, walk_len, size, step_size, i,
          totalBudget, calls, outcomes, func, env, cur, add_size, res, free, size_str>>

runVars == <<pc, os_type, type, is_hide, tree, walk, walk_len, size, step_size, i,
             totalBudget, calls, outcomes>>
allocVars == <<func, env, cur, add_size, res>>
mainVars == <<free, size_str>>

NoEnv == [has_fallocate |-> TRUE, fs_ok |-> TRUE, privileged |-> TRUE, io_ok |-> TRUE]
NoRes == Returned(0)

\* --------------------------------------------------------------- run()

Modes == {"append", "a", "splinters", "s", "onefile", "o", "x"}
IsAppend(t) == t \in {"append", "a"}
IsSplinters(t) == t \in {"splinters", "s"}
IsOnefile(t) == t \in {"onefile", "o"}
Decreasing == IsAppend(type) \/ IsSplinters(type)

\* The sizes run() is entered with: small ones of either sign (the __main__
\* block can compute a negative size) and the 1000 of the worked examples.
Budgets == ((0 - MinBudgetAbs)..MaxBudget) \cup {1000}

\* step_size = size // 2
half(sz) == sz \div 2

\* A loop that has no special case for the last target.
chunk_no_last(wl, st, sz) == st

\* The size handed to write_func: step_size, or size for the last target.
chunk(wl, st, sz) == IF wl # 1 THEN st ELSE sz

\* The subtraction with its operands exchanged.
after_success_swapped(sz, st) == st - sz

\* size = size - step_size, after an iteration that raised nothing.
after_success(sz, st) == sz - st

\* An except branch that gives the chunk up.
after_exception_forfeit(sz, st) == sz - st

\* size after an iteration that raised: the except branch leaves it alone.
after_exception(sz, st) == sz

\* A loop without the try block: the exception leaves run().
except_propagates == "aborted"

\* Where the loop goes after an exception: continue.
except_pc == "loop"

Init ==
    /\ pc = "run"
    /\ os_type \in {"Linux", "Windows"}
    /\ type \in Modes
    /\ is_hide \in BOOLEAN
    /\ tree \in Trees
    /\ size \in Budgets
    /\ totalBudget = size
    /\ walk = <<>> /\ walk_len = 0 /\ step_size = 0 /\ i = 0
    /\ calls = <<>> /\ outcomes = <<>>
    /\ func = "none" /\ env = NoEnv /\ cur = 0 /\ add_size = 0 /\ res = NoRes
    /\ free = 0 /\ size_str = "full"

\* run's dispatch on type, with the setup of the two loops (step_size, walk_path).
RunEnter ==
    /\ pc = "run"
    /\ IF Decreasing
       THEN /\ step_size' = half(size)
            /\ walk' = walk_path(tree, IsAppend(type))
            /\ walk_len' = Len(walk')
            /\ i' = 1
            /\ pc' = "loop"
       ELSE /\ pc' = IF IsOnefile(type) THEN "onefile" ELSE "done"
            /\ UNCHANGED <<step_size, walk, walk_len, i>>
    /\ UNCHANGED <<os_type, type, is_hide, tree, size, totalBudget, calls, outcomes>>
    /\ UNCHANGED <<allocVars, mainVars>>

\* The except branch of a loop iteration: walk_len -= 1; continue.
Except(how) ==
    /\ walk_len' = walk_len - 1
    /\ size' = after_exception(size, step_size)
    /\ i' = i + 1
    /\ pc' = except_pc
    /\ outcomes' = Append(outcomes, how)
    /\ UNCHANGED step_size

\* The end of a loop iteration whose try block raised nothing.
Complete(how) ==
    /\ size' = after_success(size, step_size)
    /\ walk_len' = walk_len - 1
    /\ step_size' = half(size')
    /\ i' = i + 1
    /\ pc' = "loop"
    /\ outcomes' = Append(outcomes, how)

\* The sizes the file of a target may have before the call: an existing file in
\* append mode, a file that open(.., 'wb') creates or empties otherwise.
FileSizes(is_append) == IF is_append THEN 0..MaxCur ELSE {0}

\* One iteration up to and including the write_func call.
IterWrite ==
    /\ pc = "loop"
    /\ i <= Len(walk)
    /\ \E e \in Envs, c \in FileSizes(IsAppend(type)) :
        LET req == chunk(walk_len, step_size, size)
            r == w_funcs(os_type, IsAppend(type), e, c, req)
        IN  /\ calls' = Append(calls, [target |-> walk[i], size |-> req,
                                       ok |-> r.exc = "none"])
            /\ IF r.exc # "none" THEN Except("write_raised")
               ELSE IF is_hide
               THEN /\ pc' = "hide"
                    /\ UNCHANGED <<walk_len, size, step_size, i, outcomes>>
               ELSE Complete("ok")
    /\ UNCHANGED <<os_type, type, is_hide, tree, walk, totalBudget>>
    /\ UNCHANGED <<allocVars, mainVars>>

\* The hide_file call of an iteration whose write_func call returned.
IterHide ==
    /\ pc = "hide"
    /\ \E exists \in BOOLEAN, step_ok \in BOOLEAN :
        LET h == hide_file(os_type, exists, step_ok)
        IN  IF h = "True" THEN Complete("ok")
            ELSE IF h = "False" THEN Complete("hide_False")
            ELSE Except("hide_raised")
    /\ UNCHANGED <<os_type, type, is_hide, tree, walk, totalBudget, calls>>
    /\ UNCHANGED <<allocVars, mainVars>>

\* The for loop is exhausted: print('Done').
LoopExit ==
    /\ pc = "loop"
    /\ i > Len(walk)
    /\ pc' = "done"
    /\ UNCHANGED <<os_type, type, is_hide, tree, walk, walk_len, size, step_size, i,
                   totalBudget, calls, outcomes>>
    /\ UNCHANGED <<allocVars, mainVars>>

\* onefile: the write_func call, outside any try block.
OneWrite ==
    /\ pc = "onefile"
    /\ \E e \in Envs :
        LET r == w_funcs(os_type, IsAppend(type), e, 0, size)
        IN  /\ calls' = Append(calls, [target |-> 0, size |-> size, ok |-> r.exc = "none"])
            /\ pc' = IF r.exc # "none" THEN "aborted"
                     ELSE IF is_hide THEN "onefile_hide" ELSE "done"
    /\ UNCHANGED <<os_type, type, is_hide, tree, walk, walk_len, size, step_size, i,
                   totalBudget, outcomes>>
    /\ UNCHANGED <<allocVars, mainVars>>

\* onefile: the hide_file call, outside any try block.
OneHide ==
    /\ pc = "onefile_hide"
    /\ \E exists \in BOOLEAN, step_ok \in BOOLEAN :
        LET h == hide_file(os_type, exists, step_ok)
        IN  pc' = IF h \in {"True", "False"} THEN "done" ELSE "aborted"
    /\ UNCHANGED <<os_type, type, is_hide, tree, walk, walk_len, size, step_size, i,
                   totalBudget, calls, outcomes>>
    /\ UNCHANGED <<allocVars, mainVars>>

Next == RunEnter \/ IterWrite \/ IterHide \/ LoopExit \/ OneWrite \/ OneHide

Spec == Init /\ [][Next]_vars

\* ------------------------------------------------ one allocator call

\* An allocator is handed any byte count run() can compute, one below zero included.
AllocInit ==
    /\ pc = "alloc"
    /\ func = "none"
    /\ env \in Envs
    /\ cur \in 0..MaxCur
    /\ add_size \in (0 - 1)..MaxAdd
    /\ res = NoRes
    /\ os_type \in {"Linux", "Windows"}
    /\ type = "x" /\ is_hide = FALSE /\ tree = <<>>
    /\ walk = <<>> /\ walk_len = 0 /\ size = 0 /\ step_size = 0 /\ i = 0
    /\ totalBudget = 0 /\ calls = <<>> /\ outcomes = <<>>
    /\ free = 0 /\ size_str = "full"

\* One call of the allocator name of platform os, with outcome r.
Call(os, name, r) ==
    /\ pc = "alloc"
    /\ os_type = os
    /\ func' = name
    /\ res' = r
    /\ pc' = "returned"
    /\ UNCHANGED <<env, cur, add_size, mainVars>>
    /\ UNCHANGED <<os_type, type, is_hide, tree, walk, walk_len, size, step_size, i,
                   totalBudget, calls, outcomes>>

CallFastwriteLinux ==
    Call("Linux", "fastwrite_on_linux", fastwrite_on_linux(env, add_size))
CallFastwriteWindows ==
    Call("Windows", "fastwrite_on_windows", fastwrite_on_windows(env, add_size))
CallExtendLinux ==
    Call("Linux", "extend_file_size_linux", extend_file_size_linux(env, cur, add_size))
CallAdjustWindows ==
    Call("Windows", "adjust_file_size_windows", adjust_file_size_windows(env, cur, add_size))

AllocNext ==
    CallFastwriteLinux \/ CallFastwriteWindows \/ CallExtendLinux \/ CallAdjustWindows

AllocSpec == AllocInit /\ [][AllocNext]_vars

\* The two allocators that create the file (open 'wb'); the other two extend it.
Creates(f) == f \in {"fastwrite_on_linux", "fastwrite_on_windows"}
Sparse(f) == f \in {"fastwrite_on_linux", "extend_file_size_linux"}

\* The size the caller asked the file to have.
requested_size(f, c, a) == IF Creates(f) THEN a ELSE c + a

\* ---------------------------------------------------- the __main__ block

MiB == 1024 * 1024

\* The unit letters sampled. "G" and "T" are converted the same way; their
\* products leave the integers TLC computes with, so they are not sampled.
Units == {"", "K", "k", "M"}
SizeStrings == [full : BOOLEAN, num : 0..MaxNum, unit : Units]
FreeValues == UNION {{k, MiB - k, MiB + k} : k \in 0..MaxFreeOff}

Upper(u) == IF u = "k" THEN "K" ELSE u

\* units = {'K': 1024, 'M': 1024**2, 'G': 1024**3, 'T': 1024**4}
unit_factor(u) ==
    CASE u = "K" -> 1024
      [] u = "M" -> 1024 * 1024
      [] u = "G" -> 1024 * 1024 * 1024
      [] u = "T" -> 1024 * 1024 * 1024 * 1024
      [] OTHER -> 1

convert_to_bytes(s) ==
    IF Upper(s.unit) \in {"K", "M", "G", "T"}
    THEN s.num * unit_factor(Upper(s.unit))
    ELSE s.num

\* size, as lines 344..352 compute it from args.size and use_disk.free.
main_size(fr, s) ==
    IF s.full THEN fr
    ELSE LET set_size == convert_to_bytes(s)
         IN  IF set_size <= fr THEN set_size ELSE fr - 1024 * 1024

\* is_admin(os_type): "raise" for a platform it does not know.
is_admin(os, admin) ==
    IF os = "Windows" \/ os = "Linux" THEN (IF admin THEN "True" ELSE "False") ELSE "raise"

MainInit ==
    /\ pc = "main"
    /\ os_type \in {"Linux", "Windows", "Darwin"}
    /\ type \in Modes
    /\ is_hide \in BOOLEAN
    /\ free \in FreeValues
    /\ size_str \in {s \in SizeStrings : s.full => (s.num = 0 /\ s.unit = "")}
    /\ size = 0 /\ totalBudget = 0
    /\ tree = <<>> /\ walk = <<>> /\ walk_len = 0 /\ step_size = 0 /\ i = 0
    /\ calls = <<>> /\ outcomes = <<>>
    /\ func = "none" /\ env = NoEnv /\ cur = 0 /\ add_size = 0 /\ res = NoRes

\* Lines 344..352: the size to fill.
MainSize ==
    /\ pc = "main"
    /\ size' = main_size(free, size_str)
    /\ pc' = "gate"
    /\ UNCHANGED <<os_type, type, is_hide, tree, walk, walk_len, step_size, i,
                   totalBudget, calls, outcomes>>
    /\ UNCHANGED <<allocVars, mainVars>>

\* Lines 353..383: the privilege check and confirmation for --hide, then the
\* call of run() on the two platforms that have allocators.
MainGate ==
    /\ pc = "gate"
    /\ \E admin \in BOOLEAN, answer_yes \in BOOLEAN :
        LET a == is_admin(os_type, admin)
        IN  pc' = IF is_hide /\ a = "raise" THEN "aborted"
                  ELSE IF is_hide /\ a = "False" THEN "exit"
                  ELSE IF is_hide /\ IsAppend(type) /\ ~answer_yes THEN "exit"
                  ELSE IF os_type \in {"Windows", "Linux"} THEN "run"
                  ELSE "exit"
    /\ totalBudget' = size
    /\ UNCHANGED <<os_type, type, is_hide, tree, walk, walk_len, size, step_size, i,
                   calls, outcomes>>
    /\ UNCHANGED <<allocVars, mainVars>>

MainNext == MainSize \/ MainGate

MainSpec == MainInit /\ [][MainNext]_vars

\* ============================================================== properties

Last(q) == q[Len(q)]
Raising == {"write_raised", "hide_raised"}

\* An iteration of the loop ends in this step.
IterationEnds == Len(outcomes') = Len(outcomes) + 1

\* A write_func call is made in this step.
CallMade == Len(calls') = Len(calls) + 1

RECURSIVE RemainingAt(_, _)
\* remaining_k of the halving recurrence: remaining_1 is the budget b and
\* remaining_(k+1) = remaining_k - floor(remaining_k / 2).
RemainingAt(b, k) ==
    IF k <= 1 THEN b
    ELSE LET r == RemainingAt(b, k - 1) IN r - (r \div 2)

RECURSIVE SumSizes(_, _)
\* The sum of the sizes of the first k calls that returned (any, with all = TRUE).
SumSizes(k, all) ==
    IF k = 0 THEN 0
    ELSE SumSizes(k - 1, all) + (IF all \/ calls[k].ok THEN calls[k].size ELSE 0)

NothingRaised ==
    /\ \A k \in 1..Len(calls) : calls[k].ok
    /\ \A k \in 1..Len(outcomes) : outcomes[k] \notin Raising

\* ---------------------------------------------------------------------- C1

Terminal == pc \in {"done", "aborted"}

\* C3: in the decreasing modes the calls made so far are the first targets of the
\* snapshot, one call each and in order, whatever failed; the run cannot stop
\* before it is done, it never aborts, and when it is done every target has been
\* attempted exactly once (none at all for an empty list).
C3_OneAttemptEach ==
    Decreasing =>
        /\ Len(calls) <= Len(walk)
        /\ \A k \in 1..Len(calls) : calls[k].target = walk[k]
        /\ pc = "loop" => (Len(calls) = i - 1 /\ Len(outcomes) = i - 1)
        /\ pc = "hide" => (Len(calls) = i /\ Len(outcomes) = i - 1)
        /\ pc # "run" => walk = walk_path(tree, IsAppend(type))
        /\ Terminal => (pc = "done" /\ Len(calls) = Len(walk))
        /\ ~Terminal => ENABLED Next

\* Three targets, the first allocation and the second visibility step fail, and
\* the run is done with three calls.
C3_Witness ==
    /\ Decreasing /\ pc = "done" /\ Len(walk) = 3 /\ Len(calls) = 3
    /\ outcomes[1] = "write_raised" /\ outcomes[2] = "hide_raised"

\* ---------------------------------------------------------------------- C4

\* C4: in a decreasing-mode run started with a budget >= 0, size is never
\* negative and no step increases it.
C4_BudgetMonotone ==
    /\ []((Decreasing /\ totalBudget >= 0) => size >= 0)
    /\ [][(Decreasing /\ totalBudget >= 0) => size' <= size]_vars

\* A run with failures and successes in which size has gone down.
C4_Witness ==
    /\ Decreasing /\ totalBudget > 0 /\ size < totalBudget /\ size >= 0
    /\ Len(outcomes) = 3
    /\ \E k \in 1..3 : outcomes[k] \in Raising
    /\ \E k \in 1..3 : outcomes[k] \notin Raising

\* ---------------------------------------------------------------------- C5

\* C5 as stated: in a decreasing-mode run started with a budget >= 0, after a
\* write_func call that returned, whatever the visibility
\* step does (return True, return False, raise), the budget arithmetic is that of
\* a successful iteration: size' = size - step_size and the chunk is recomputed.
C5_HideFailureIgnored ==
    [][(Decreasing /\ totalBudget >= 0 /\ pc = "hide") =>
         (size' = size - step_size /\ step_size' = size' \div 2)]_vars

\* The part of C5 the code keeps: a visibility step that returns False.
C5_HideFalseIgnored ==
    [][(Decreasing /\ pc = "hide" /\ IterationEnds /\ Last(outcomes') = "hide_False") =>
         (size' = size - step_size /\ step_size' = size' \div 2)]_vars

\* ---------------------------------------------------------------------- C8

\* C8 as stated: onefile (with a budget of at least one byte) makes one write_func
\* call, for the whole budget, and a failure of it does not abort the run: every
\* way the run ends is 'Done'.
C8_OnefileNeverAborts ==
    (IsOnefile(type) /\ totalBudget >= 1) =>
        /\ Len(calls) <= 1
        /\ \A k \in 1..Len(calls) : calls[k].size = totalBudget
        /\ Terminal => (pc = "done" /\ Len(calls) = 1)

\* The part of C8 the code keeps: at most one call, for the whole budget.
C8_OnefileOneCall ==
    IsOnefile(type) =>
        /\ Len(calls) <= 1
        /\ \A k \in 1..Len(calls) : calls[k].size = totalBudget
        /\ Terminal => Len(calls) = 1

\* ---------------------------------------------------------------------- C9

\* C9 as stated: in a decreasing-mode run started with a budget >= 0 the sizes of
\* the write_func calls that returned never sum to more than the budget.
C9_WrittenWithinBudget ==
    (Decreasing /\ totalBudget >= 0) => SumSizes(Len(calls), FALSE) <= totalBudget

\* C9 holds where no visibility step raised.
C9_WithinBudgetUnlessHideRaised ==
    (Decreasing /\ totalBudget >= 0 /\ \A k \in 1..Len(outcomes) : outcomes[k] # "hide_raised")
        => SumSizes(Len(calls), FALSE) <= totalBudget

\* ---------------------------------------------------------------------- C6

\* The preconditions of allocate: a byte count >= 0, the file can be opened, and
\* on the sparse-extend platform the fallocate primitive exists and is carried out.
AllocPre == add_size >= 0 /\ env.io_ok /\ (Sparse(func) => (env.has_fallocate /\ env.fs_ok))

\* C6 as stated: a call whose preconditions hold returns, and the file then has
\* the requested size (add_size for a created file, cur + add_size for an extended
\* one), with or without the privilege SetFileValidData needs.
C6_AllocatesRequestedSize ==
    (pc = "returned" /\ AllocPre) =>
        (res.exc = "none" /\ res.fsize = requested_size(func, cur, add_size))

\* C6 holds for every requested size of at least one byte.
C6_HoldsFromOneByte ==
    (pc = "returned" /\ AllocPre /\ requested_size(func, cur, add_size) >= 1) =>
        (res.exc = "none" /\ res.fsize = requested_size(func, cur, add_size))

\* ---------------------------------------------------------------------- C7

\* C7 as stated: under sparse-extend, when the fallocate primitive is missing or
\* refused, the call still returns with the file at the new size (of at least one
\* byte), for a created file and for an extended one.
C7_FallbackNeverFails ==
    (/\ pc = "returned" /\ Sparse(func) /\ env.io_ok /\ add_size >= 0
     /\ requested_size(func, cur, add_size) >= 1
     /\ (~env.has_fallocate \/ ~env.fs_ok)) =>
        (res.exc = "none" /\ res.fsize = requested_size(func, cur, add_size))

\* The fallback the code has: extend_file_size_linux where posix_fallocate is missing.
C7_ExtendFallsBackWhenMissing ==
    (/\ pc = "returned" /\ func = "extend_file_size_linux" /\ env.io_ok /\ add_size >= 0
     /\ cur + add_size >= 1 /\ ~env.has_fallocate) =>
        (res.exc = "none" /\ res.fsize = cur + add_size)

\* --------------------------------------------------------------------- C10

\* C10 as stated: the size __main__ computes lies in 0..free: the requested size
\* when that is <= free, free for 'full', free - 1 MiB when the request exceeds
\* free, and never negative.
C10_BudgetWithinFree ==
    pc \in {"gate", "run"} =>
        /\ size \in 0..free
        /\ size_str.full => size = free
        /\ (~size_str.full /\ convert_to_bytes(size_str) <= free) =>
              size = convert_to_bytes(size_str)
        /\ (~size_str.full /\ convert_to_bytes(size_str) > free) => size = free - MiB

\* C10 without its range: the three cases alone.
C10_ThreeCases ==
    pc \in {"gate", "run"} =>
        /\ size_str.full => size = free
        /\ (~size_str.full /\ convert_to_bytes(size_str) <= free) =>
              size = convert_to_bytes(size_str)
        /\ (~size_str.full /\ convert_to_bytes(size_str) > free) => size = free - MiB

=============================================================================
